---- MODULE Spec2Model ----
(***************************************************************************)
(* A model of the two utilities of the repository:                         *)
(*   convert-pdf-markitdown.py            the PDF -> Markdown converter     *)
(*   database/create_excel_database_template.py   the template generator   *)
(* One behaviour is one process invocation of one of the two programs.     *)
(* Text that the code inspects character by character (paths, schema names,*)
(* CSV file names, extracted text) is a sequence of one-character strings; *)
(* text that is only stored and copied is a TLA+ string.                   *)
(***************************************************************************)
EXTENDS Integers, Sequences, FiniteSets, TLC

VARIABLES
  prog,         \* which script this process runs: "converter" or "generator"
  pc,           \* position in the script
  sys_argv,     \* sys.argv, script name first
  files,        \* converter's file system: path -> file
  dirs,         \* converter's file system: the directories that exist
  files0,       \* files as they were when the process started
  dirs0,        \* dirs as they were when the process started
  result,       \* value of md.convert(pdf_path)
  invoked,      \* the paths md.convert has been called with, in order
  stdout,       \* lines printed so far (message tags)
  exit_status,  \* process exit status, -1 while running
  failure,      \* the failure branch the run took, "none" if none
  raisedIn,     \* the steps that raised an exception in this run
  i,            \* generator: index of the loop over tables_data.items()
  summary_data, \* generator: summary_data list
  book,         \* generator: writer.book, the in-memory workbook
  xlsx,         \* generator: the spreadsheet file on disk
  readme,       \* generator: the README.md index file on disk
  wrote,        \* generator: artifacts completely written by this run
  artifacts0    \* generator: <<xlsx, readme>> as they were when the process started

vars ==
  << prog, pc, sys_argv, files, dirs, files0, dirs0, result, invoked, stdout,
     exit_status, failure, raisedIn, i, summary_data, book, xlsx, readme, wrote,
     artifacts0 >>

convVars ==
  << sys_argv, files, dirs, files0, dirs0, result, invoked >>

genVars ==
  << i, summary_data, book, xlsx, readme, wrote, artifacts0 >>

----------------------------------------------------------------------------
(* Bounds of the model *)

\* longest text the conversion service returns
MaxTextLen == 2

----------------------------------------------------------------------------
(* Strings as character sequences *)

UpperChars ==
  << "A", "B", "C", "D", "E", "F", "G", "H", "I", "J", "K", "L", "M",
     "N", "O", "P", "Q", "R", "S", "T", "U", "V", "W", "X", "Y", "Z" >>

LowerChars ==
  << "a", "b", "c", "d", "e", "f", "g", "h", "i", "j", "k", "l", "m",
     "n", "o", "p", "q", "r", "s", "t", "u", "v", "w", "x", "y", "z" >>

\* one character of str.lower()
LowerChar(c) ==
  IF \E k \in 1..Len(UpperChars) : UpperChars[k] = c
  THEN LowerChars[CHOOSE k \in 1..Len(UpperChars) : UpperChars[k] = c]
  ELSE c

\* str.lower()
Lower(s) ==
  [k \in 1..Len(s) |-> LowerChar(s[k])]

\* str.endswith(suffix)
EndsWith(s, suffix) ==
  /\ Len(s) >= Len(suffix)
  /\ SubSeq(s, Len(s) - Len(suffix) + 1, Len(s)) = suffix

\* s[:n]
Prefix(s, n) ==
  SubSeq(s, 1, IF Len(s) < n THEN Len(s) ELSE n)

\* str.rfind("/") + 1: the 1-based position of the last "/", 0 if none
RFindSlash(p) ==
  IF \E k \in 1..Len(p) : p[k] = "/"
  THEN CHOOSE k \in 1..Len(p) : p[k] = "/" /\ \A m \in (k+1)..Len(p) : p[m] # "/"
  ELSE 0

RECURSIVE RStripSlash(_)
\* str.rstrip("/")
RStripSlash(s) ==
  IF Len(s) > 0 /\ s[Len(s)] = "/" THEN RStripSlash(SubSeq(s, 1, Len(s) - 1)) ELSE s

\* os.path.dirname (posixpath)
Dirname(p) ==
  LET head == SubSeq(p, 1, RFindSlash(p))
  IN  IF head # <<>> /\ \E k \in 1..Len(head) : head[k] # "/"
      THEN RStripSlash(head)
      ELSE head

RECURSIVE SelfAndParents(_)
\* the directories os.makedirs(d) makes sure exist: d and every ancestor of d
SelfAndParents(d) ==
  IF d = <<>> \/ Dirname(d) = d THEN {} ELSE {d} \cup SelfAndParents(Dirname(d))

----------------------------------------------------------------------------
(* The converter: inputs and file system *)

ScriptName == <<"c", "v", ".", "p", "y">>

SrcPaths ==
  { <<"a", ".", "p", "d", "f">>,
    <<"A", ".", "P", "D", "F">>,
    <<"b", ".", "P", "d", "f">>,
    <<"c", ".", "t", "x", "t">>,
    <<"p", "d", "f">> }

OutPaths ==
  { <<"o", ".", "m", "d">>,
    <<"d", "/", "o", ".", "m", "d">>,
    <<"d", "/", "e", "/", "o", ".", "m", "d">> }

AllPaths == SrcPaths \cup OutPaths

\* the command lines tried: too few, right, and too many arguments
ArgLists ==
  { <<ScriptName>> }
  \cup { <<ScriptName, p>> : p \in {<<"a", ".", "p", "d", "f">>, <<"c", ".", "t", "x", "t">>} }
  \cup { <<ScriptName, p, o>> : p \in SrcPaths, o \in OutPaths }
  \cup { <<ScriptName, p, <<"o", ".", "m", "d">>, <<"x">> >> :
           p \in {<<"a", ".", "p", "d", "f">>, <<"c", ".", "t", "x", "t">>} }

\* directory layouts the process may start in (closed under parent)
DirLayouts ==
  { {},
    { <<"d">> },
    { <<"d">>, <<"d", "/", "e">> } }

NoFile == [exists |-> FALSE, bytes |-> <<>>]

File(b) == [exists |-> TRUE, bytes |-> b]

\* content of a source document and of a destination left by an earlier run
PdfBytes == <<37, 80, 68, 70>>

OldBytes == <<111, 108, 100>>

\* characters of the extracted text: ASCII, a two-byte character, a newline,
\* and a lone surrogate (which UTF-8 cannot encode)
TextChars == {"a", "e'", "\n", "SURROGATE"}

RECURSIVE SeqsUpTo(_, _)
SeqsUpTo(S, n) ==
  IF n = 0 THEN { <<>> }
  ELSE SeqsUpTo(S, n - 1)
       \cup { Append(s, c) : s \in { t \in SeqsUpTo(S, n - 1) : Len(t) = n - 1 }, c \in S }

Texts == SeqsUpTo(TextChars, MaxTextLen)

\* values md.convert can return: None, an object without text, an object with text
Unset == [kind |-> "unset", has_text |-> FALSE, text_content |-> <<>>]

ResultNone == [kind |-> "None", has_text |-> FALSE, text_content |-> <<>>]

ResultNoText == [kind |-> "object", has_text |-> FALSE, text_content |-> <<>>]

ResultText(t) == [kind |-> "object", has_text |-> TRUE, text_content |-> t]

ConvertResults ==
  { ResultNone, ResultNoText } \cup { ResultText(t) : t \in Texts }

\* Python truth value of `not result or not result.text_content`
NoContent(r) ==
  \/ r.kind = "None"
  \/ ~r.has_text
  \/ r.text_content = <<>>

\* os.linesep of the POSIX hosts the scripts are written for
LineSep == <<10>>

\* UTF-8 bytes of one character as the text-mode file writes it
EncodeChar(c) ==
  CASE c = "a" -> <<97>>
    [] c = "e'" -> <<195, 169>>
    [] c = "\n" -> LineSep
    [] OTHER -> <<>>

\* characters that str.encode("utf-8") rejects with UnicodeEncodeError
Encodable(t) ==
  \A k \in 1..Len(t) : t[k] # "SURROGATE"

RECURSIVE Encode(_)
\* str.encode("utf-8") with newline translation
Encode(t) ==
  IF t = <<>> THEN <<>> ELSE EncodeChar(Head(t)) \o Encode(Tail(t))

pdf_path == sys_argv[2]

output_path == sys_argv[3]

\* Exists with the look at the file system left out
ExistsUnchecked(p) ==
  TRUE

\* os.path.exists
Exists(p) ==
  \/ p \in dirs
  \/ p \in DOMAIN files /\ files[p].exists

\* IsPdf with the dot of the extension forgotten
IsPdfNoDot(p) ==
  EndsWith(Lower(p), <<"p", "d", "f">>)

\* the test of line 66
IsPdf(p) ==
  EndsWith(Lower(p), <<".", "p", "d", "f">>)

----------------------------------------------------------------------------
(* The converter: main() and convert_pdf_to_markdown() *)

\* number of characters of the preview, line 37
PreviewLen == 500

\* print(...): the line reaches stdout, or the print raises and nothing is added
Printed(ok, tag, arg) ==
  IF ok THEN Append(stdout, <<tag, arg>>) ELSE stdout

\* sys.exit(code), and the exit of a process killed by an uncaught exception
Exit(code) ==
  /\ pc' = "exit"
  /\ exit_status' = code

\* where an exception raised inside the try block of convert_pdf_to_markdown
\* goes: the handler `except Exception` of line 49
Raise(step) ==
  /\ pc' = "except_Exception"
  /\ raisedIn' = raisedIn \cup {step}

\* lines 54-59
CheckArgs ==
  /\ prog = "converter" /\ pc = "main"
  /\ IF Len(sys_argv) # 3
     THEN /\ \E ok \in BOOLEAN : stdout' = Printed(ok, "Usage", <<>>)
          /\ Exit(1)
          /\ failure' = "usage"
     ELSE /\ pc' = "check_exists"
          /\ UNCHANGED << stdout, exit_status, failure >>
  /\ UNCHANGED << prog, convVars, genVars, raisedIn >>

\* lines 61-64
CheckExists ==
  /\ prog = "converter" /\ pc = "check_exists"
  /\ IF ~Exists(pdf_path)
     THEN /\ \E ok \in BOOLEAN : stdout' = Printed(ok, "ERROR: PDF file not found", pdf_path)
          /\ Exit(1)
          /\ failure' = "missing"
     ELSE /\ pc' = "check_ext"
          /\ UNCHANGED << stdout, exit_status, failure >>
  /\ UNCHANGED << prog, convVars, genVars, raisedIn >>

\* lines 66-68
CheckExt ==
  /\ prog = "converter" /\ pc = "check_ext"
  /\ IF ~IsPdf(pdf_path)
     THEN /\ \E ok \in BOOLEAN : stdout' = Printed(ok, "ERROR: Input file must be a PDF", pdf_path)
          /\ Exit(1)
          /\ failure' = "type"
     ELSE /\ pc' = "make_dirs"
          /\ UNCHANGED << stdout, exit_status, failure >>
  /\ UNCHANGED << prog, convVars, genVars, raisedIn >>

\* lines 70-73: os.makedirs is outside every try block, so an OSError it
\* raises ends the process with a traceback and status 1
MakeDirs ==
  /\ prog = "converter" /\ pc = "make_dirs"
  /\ LET output_dir == Dirname(output_path)
     IN  IF output_dir # <<>> /\ ~Exists(output_dir)
         THEN \E ok \in BOOLEAN :
                IF ok
                THEN /\ dirs' = dirs \cup SelfAndParents(output_dir)
                     /\ pc' = "import"
                     /\ UNCHANGED << exit_status, failure, raisedIn >>
                ELSE /\ Exit(1)
                     /\ failure' = "crash"
                     /\ raisedIn' = raisedIn \cup {"makedirs"}
                     /\ UNCHANGED dirs
         ELSE /\ pc' = "import"
              /\ UNCHANGED << dirs, exit_status, failure, raisedIn >>
  /\ UNCHANGED << prog, sys_argv, files, files0, dirs0, result, invoked, stdout, genVars >>

\* line 14: from markitdown import MarkItDown
Import ==
  /\ prog = "converter" /\ pc = "import"
  /\ \E installed \in BOOLEAN :
       IF installed
       THEN /\ pc' = "print_start"
            /\ UNCHANGED raisedIn
       ELSE /\ pc' = "except_ImportError"
            /\ raisedIn' = raisedIn \cup {"import"}
  /\ UNCHANGED << prog, convVars, genVars, stdout, exit_status, failure >>

\* lines 16-17
PrintStart ==
  /\ prog = "converter" /\ pc = "print_start"
  /\ \E ok \in BOOLEAN :
       IF ok
       THEN /\ stdout' = Printed(TRUE, "Converting PDF", pdf_path)
            /\ pc' = "construct"
            /\ UNCHANGED raisedIn
       ELSE /\ Raise("print_start")
            /\ UNCHANGED stdout
  /\ UNCHANGED << prog, convVars, genVars, exit_status, failure >>

\* line 20: md = MarkItDown()
Construct ==
  /\ prog = "converter" /\ pc = "construct"
  /\ \E ok \in BOOLEAN :
       IF ok
       THEN /\ pc' = "convert"
            /\ UNCHANGED raisedIn
       ELSE Raise("construct")
  /\ UNCHANGED << prog, convVars, genVars, stdout, exit_status, failure >>

\* line 23: result = md.convert(pdf_path); the service returns or raises
Convert ==
  /\ prog = "converter" /\ pc = "convert"
  /\ invoked' = Append(invoked, pdf_path)
  /\ \/ /\ Raise("convert")
        /\ UNCHANGED result
     \/ \E r \in ConvertResults :
          /\ result' = r
          /\ pc' = "check_result"
          /\ UNCHANGED raisedIn
  /\ UNCHANGED << prog, sys_argv, files, dirs, files0, dirs0, genVars, stdout,
                  exit_status, failure >>

\* lines 25-27
CheckResult ==
  /\ prog = "converter" /\ pc = "check_result"
  /\ IF NoContent(result)
     THEN \E ok \in BOOLEAN :
            IF ok
            THEN /\ stdout' = Printed(TRUE, "ERROR: No content extracted from PDF", <<>>)
                 /\ pc' = "return_False"
                 /\ failure' = "empty"
                 /\ UNCHANGED raisedIn
            ELSE /\ Raise("print_empty")
                 /\ UNCHANGED << stdout, failure >>
     ELSE /\ pc' = "open_output"
          /\ UNCHANGED << stdout, failure, raisedIn >>
  /\ UNCHANGED << prog, convVars, genVars, exit_status >>

\* the file open(path, "w") leaves behind: created, or truncated to nothing
Truncated(f) ==
  File(<<>>)

\* line 30: open(output_path, 'w', encoding='utf-8')
OpenOutput ==
  /\ prog = "converter" /\ pc = "open_output"
  /\ \E ok \in BOOLEAN :
       IF ok
       THEN /\ files' = [files EXCEPT ![output_path] = Truncated(@)]
            /\ pc' = "write_output"
            /\ UNCHANGED raisedIn
       ELSE /\ Raise("open")
            /\ UNCHANGED files
  /\ UNCHANGED << prog, sys_argv, dirs, files0, dirs0, result, invoked, genVars,
                  stdout, exit_status, failure >>

\* Written with the text cut short by its last character
WrittenDropsLastChar(text) ==
  Encode(SubSeq(text, 1, Len(text) - 1))

\* the bytes f.write(text) followed by the close of the with block puts in the file
Written(text) ==
  Encode(text)

\* line 31 and the end of the with block: the text is encoded and written,
\* or the encoding fails (nothing is written), or the device fails part-way
WriteOutput ==
  /\ prog = "converter" /\ pc = "write_output"
  /\ IF ~Encodable(result.text_content)
     THEN /\ Raise("write")
          /\ UNCHANGED files
     ELSE \/ /\ files' = [files EXCEPT ![output_path] = File(Written(result.text_content))]
             /\ pc' = "print_success"
             /\ UNCHANGED raisedIn
          \/ \E n \in 0..(Len(Encode(result.text_content)) - 1) :
               /\ files' = [files EXCEPT ![output_path] =
                                           File(SubSeq(Encode(result.text_content), 1, n))]
               /\ Raise("write")
  /\ UNCHANGED << prog, sys_argv, dirs, files0, dirs0, result, invoked, genVars,
                  stdout, exit_status, failure >>

\* lines 33-43
PrintSuccess ==
  /\ prog = "converter" /\ pc = "print_success"
  /\ \E ok \in BOOLEAN :
       IF ok
       THEN /\ stdout' = stdout \o << <<"SUCCESS: Conversion completed", <<>> >>,
                                      <<"Preview", Prefix(result.text_content, PreviewLen)>> >>
            /\ pc' = "return_True"
            /\ UNCHANGED raisedIn
       ELSE /\ Raise("print_success")
            /\ UNCHANGED stdout
  /\ UNCHANGED << prog, convVars, genVars, exit_status, failure >>

\* lines 45-48: a print that raises inside a handler leaves the function as an
\* uncaught exception and ends the process with status 1
ExceptImportError ==
  /\ prog = "converter" /\ pc = "except_ImportError"
  /\ failure' = "dependency"
  /\ \E ok \in BOOLEAN :
       IF ok
       THEN /\ stdout' = Printed(TRUE, "ERROR: MarkItDown not installed", <<>>)
            /\ pc' = "return_False"
            /\ UNCHANGED << exit_status, raisedIn >>
       ELSE /\ Exit(1)
            /\ raisedIn' = raisedIn \cup {"print_handler"}
            /\ UNCHANGED stdout
  /\ UNCHANGED << prog, convVars, genVars >>

\* lines 49-51
ExceptException ==
  /\ prog = "converter" /\ pc = "except_Exception"
  /\ failure' = "exception"
  /\ \E ok \in BOOLEAN :
       IF ok
       THEN /\ stdout' = Printed(TRUE, "ERROR: Conversion failed", <<>>)
            /\ pc' = "return_False"
            /\ UNCHANGED << exit_status, raisedIn >>
       ELSE /\ Exit(1)
            /\ raisedIn' = raisedIn \cup {"print_handler"}
            /\ UNCHANGED stdout
  /\ UNCHANGED << prog, convVars, genVars >>

\* the status main() exits with when convert_pdf_to_markdown returned True
SuccessStatus == 0

\* lines 78-80
ReportSuccess ==
  /\ prog = "converter" /\ pc = "return_True"
  /\ \E ok \in BOOLEAN :
       IF ok
       THEN /\ stdout' = Printed(TRUE, "PDF converted successfully", output_path)
            /\ Exit(SuccessStatus)
            /\ UNCHANGED << failure, raisedIn >>
       ELSE /\ Exit(1)
            /\ failure' = "crash"
            /\ raisedIn' = raisedIn \cup {"print_final"}
            /\ UNCHANGED stdout
  /\ UNCHANGED << prog, convVars, genVars >>

\* lines 81-83
ReportFailure ==
  /\ prog = "converter" /\ pc = "return_False"
  /\ \E ok \in BOOLEAN : stdout' = Printed(ok, "PDF conversion failed", <<>>)
  /\ Exit(1)
  /\ UNCHANGED << prog, convVars, genVars, failure, raisedIn >>

NextConverter ==
  \/ CheckArgs
  \/ CheckExists
  \/ CheckExt
  \/ MakeDirs
  \/ Import
  \/ PrintStart
  \/ Construct
  \/ Convert
  \/ CheckResult
  \/ OpenOutput
  \/ WriteOutput
  \/ PrintSuccess
  \/ ExceptImportError
  \/ ExceptException
  \/ ReportSuccess
  \/ ReportFailure

----------------------------------------------------------------------------
(* The template generator: values, tables_data and csv_files *)

RECURSIVE Str(_)
\* the string made of the characters cs
Str(cs) ==
  IF cs = <<>> THEN "" ELSE Head(cs) \o Str(Tail(cs))

\* a scalar of a sample row, and the spreadsheet cell that holds it
IntCell(v) == [t |-> "int", s |-> "", n |-> v, font |-> ""]

FloatCell(v) == [t |-> "float", s |-> v, n |-> 0, font |-> ""]

StrCell(v) == [t |-> "str", s |-> v, n |-> 0, font |-> ""]

BoolCell(v) == [t |-> "bool", s |-> IF v THEN "True" ELSE "False", n |-> 0, font |-> ""]

\* the NaN pandas puts where a row lacks a column; to_excel writes it as an empty cell
NaNCell == [t |-> "nan", s |-> "", n |-> 0, font |-> ""]

\* tables_data["Land_Registry_Comprehensive"], lines 13-37
T_Land_Registry_Comprehensive ==
  [ name |-> <<"L", "a", "n", "d", "_", "R", "e", "g", "i", "s", "t", "r", "y", "_", "C", "o", "m", "p", "r", "e", "h", "e", "n", "s", "i", "v", "e">>,
    hebrew_name |-> "נסח טאבו מקיף",
    description |-> "מסמכי בעלות ורישום מקרקעין",
    data |-> <<
      <<
       <<"id", IntCell(1)>>,
       <<"registration_office", StrCell("לשכת רישום מקרקעין תל אביב")>>,
       <<"issue_date", StrCell("2024-01-15")>>,
       <<"tabu_extract_date", StrCell("2024-01-10")>>,
       <<"document_filename", StrCell("sample_tabu.pdf")>>,
       <<"gush", IntCell(9905)>>,
       <<"chelka", IntCell(88)>>,
       <<"sub_chelka", IntCell(8)>>,
       <<"total_plot_area", FloatCell("250.5")>>,
       <<"regulation_type", StrCell("מוסכם")>>,
       <<"address_from_tabu", StrCell("רחוב הרצל 123, תל אביב")>>,
       <<"unit_description", StrCell("דירת 4 חדרים קומה 2")>>,
       <<"floor", IntCell(2)>>,
       <<"apartment_registered_area", FloatCell("85.5")>>,
       <<"balcony_area", FloatCell("12.3")>>,
       <<"owners_count", IntCell(1)>>,
       <<"ownership_type", StrCell("בעלות מלאה")>>,
       <<"confidence_overall", FloatCell("0.85")>>,
       <<"created_at", StrCell("2024-01-15 10:30:00")>> >> >> ]

\* tables_data["Building_Permits"], lines 39-53
T_Building_Permits ==
  [ name |-> <<"B", "u", "i", "l", "d", "i", "n", "g", "_", "P", "e", "r", "m", "i", "t", "s">>,
    hebrew_name |-> "היתרי בנייה",
    description |-> "מסמכי היתרי בנייה מילוליים",
    data |-> <<
      <<
       <<"id", IntCell(1)>>,
       <<"document_filename", StrCell("building_permit_sample.pdf")>>,
       <<"permit_number", StrCell("BP-2024-001")>>,
       <<"permit_date", StrCell("2024-01-10")>>,
       <<"permitted_usage", StrCell("מגורים")>>,
       <<"permit_issue_date", StrCell("2024-01-08")>>,
       <<"local_committee_name", StrCell("ועדה מקומית תל אביב")>>,
       <<"overall_confidence", FloatCell("87.5")>>,
       <<"created_at", StrCell("2024-01-15 10:00:00")>> >> >> ]

\* tables_data["Shared_Building_Orders"], lines 55-70
T_Shared_Building_Orders ==
  [ name |-> <<"S", "h", "a", "r", "e", "d", "_", "B", "u", "i", "l", "d", "i", "n", "g", "_", "O", "r", "d", "e", "r", "s">>,
    hebrew_name |-> "צווי בית משותף",
    description |-> "מסמכי רישום בית משותף",
    data |-> <<
      <<
       <<"id", IntCell(1)>>,
       <<"filename", StrCell("shared_building_order_sample.pdf")>>,
       <<"order_issue_date", StrCell("2024-01-12")>>,
       <<"building_description", StrCell("בניין מגורים בן 4 קומות")>>,
       <<"building_floors", IntCell(4)>>,
       <<"building_sub_plots_count", IntCell(8)>>,
       <<"building_address", StrCell("רחוב בן יהודה 45 תל אביב")>>,
       <<"total_sub_plots", IntCell(8)>>,
       <<"overall_confidence", FloatCell("0.88")>>,
       <<"processed_at", StrCell("2024-01-15 11:00:00")>> >> >> ]

\* tables_data["Property_Assessments"], lines 72-92
T_Property_Assessments ==
  [ name |-> <<"P", "r", "o", "p", "e", "r", "t", "y", "_", "A", "s", "s", "e", "s", "s", "m", "e", "n", "t", "s">>,
    hebrew_name |-> "שומות שווי נכסים",
    description |-> "נתוני הערכת שווי נכסים מקצועית",
    data |-> <<
      <<
       <<"id", IntCell(1)>>,
       <<"assessment_type", StrCell("שומת שווי מלאה")>>,
       <<"street_name", StrCell("רחוב הרצל")>>,
       <<"house_number", StrCell("123")>>,
       <<"neighborhood", StrCell("שכונת הלב")>>,
       <<"city", StrCell("תל אביב")>>,
       <<"client_name", StrCell("יוסי כהן")>>,
       <<"visit_date", StrCell("2024-01-20")>>,
       <<"visitor_name", StrCell("שמואל לוי")>>,
       <<"presenter_name", StrCell("רחל גולן")>>,
       <<"rooms", IntCell(4)>>,
       <<"floor_number", StrCell("2")>>,
       <<"eco_coefficient", FloatCell("1.15")>>,
       <<"status", StrCell("completed")>>,
       <<"created_at", StrCell("2024-01-15 12:00:00")>> >> >> ]

\* tables_data["Images"], lines 94-127
T_Images ==
  [ name |-> <<"I", "m", "a", "g", "e", "s">>,
    hebrew_name |-> "תמונות נכסים",
    description |-> "תמונות ומסמכים נלווים לנכסים",
    data |-> <<
      <<
       <<"id", IntCell(1)>>,
       <<"image_type", StrCell("תמונה חיצונית")>>,
       <<"title", StrCell("חזית הבניין")>>,
       <<"filename", StrCell("building_front.jpg")>>,
       <<"file_size", IntCell(2048000)>>,
       <<"width", IntCell(1920)>>,
       <<"height", IntCell(1080)>>,
       <<"property_assessment_id", IntCell(1)>>,
       <<"captured_date", StrCell("2024-01-15")>>,
       <<"uploaded_by", StrCell("צלם נכסים")>>,
       <<"status", StrCell("active")>>,
       <<"created_at", StrCell("2024-01-15 13:00:00")>> >>,
      <<
       <<"id", IntCell(2)>>,
       <<"image_type", StrCell("סקרין שוט GOVMAP")>>,
       <<"title", StrCell("מפה קדסטרלית")>>,
       <<"filename", StrCell("govmap_screenshot.png")>>,
       <<"file_size", IntCell(1024000)>>,
       <<"width", IntCell(1600)>>,
       <<"height", IntCell(900)>>,
       <<"property_assessment_id", IntCell(1)>>,
       <<"captured_date", StrCell("2024-01-15")>>,
       <<"uploaded_by", StrCell("מעריך נכסים")>>,
       <<"status", StrCell("active")>>,
       <<"created_at", StrCell("2024-01-15 13:15:00")>> >> >> ]

\* tables_data["Garmushka"], lines 129-147
T_Garmushka ==
  [ name |-> <<"G", "a", "r", "m", "u", "s", "h", "k", "a">>,
    hebrew_name |-> "גרמושקה",
    description |-> "מסמכי מדידה וחישוב שטחים",
    data |-> <<
      <<
       <<"id", IntCell(1)>>,
       <<"document_filename", StrCell("garmushka_sample.pdf")>>,
       <<"garmushka_issue_date", StrCell("2024-01-10")>>,
       <<"built_area", FloatCell("120.50")>>,
       <<"apartment_area", FloatCell("95.30")>>,
       <<"balcony_area", FloatCell("15.20")>>,
       <<"property_assessment_id", IntCell(1)>>,
       <<"building_permit_id", IntCell(1)>>,
       <<"processing_method", StrCell("manual")>>,
       <<"overall_confidence", FloatCell("0.88")>>,
       <<"created_by", StrCell("מודד מוסמך")>>,
       <<"status", StrCell("completed")>>,
       <<"created_at", StrCell("2024-01-15 14:00:00")>> >> >> ]

\* tables_data["Comparable_Data"], lines 149-192
T_Comparable_Data ==
  [ name |-> <<"C", "o", "m", "p", "a", "r", "a", "b", "l", "e", "_", "D", "a", "t", "a">>,
    hebrew_name |-> "נתוני השוואה",
    description |-> "נתוני מכירות נכסים להשוואה",
    data |-> <<
      <<
       <<"id", IntCell(1)>>,
       <<"sale_date", StrCell("2024-01-15")>>,
       <<"address", StrCell("רחוב הרצל 125, תל אביב")>>,
       <<"gush_chelka_sub", StrCell("9905/88/10")>>,
       <<"rooms", FloatCell("3.5")>>,
       <<"floor_number", StrCell("2")>>,
       <<"apartment_area_sqm", FloatCell("85.5")>>,
       <<"parking_spaces", IntCell(1)>>,
       <<"construction_year", IntCell(2010)>>,
       <<"declared_price", IntCell(2850000)>>,
       <<"price_per_sqm_rounded", IntCell(33333)>>,
       <<"city", StrCell("תל אביב")>>,
       <<"data_quality_score", IntCell(85)>>,
       <<"is_valid", BoolCell(TRUE)>>,
       <<"imported_by", StrCell("מנהל נתונים")>>,
       <<"status", StrCell("active")>>,
       <<"created_at", StrCell("2024-01-15 15:00:00")>> >>,
      <<
       <<"id", IntCell(2)>>,
       <<"sale_date", StrCell("2024-01-10")>>,
       <<"address", StrCell("רחוב בן יהודה 50, תל אביב")>>,
       <<"gush_chelka_sub", StrCell("9905/89/5")>>,
       <<"rooms", IntCell(4)>>,
       <<"floor_number", StrCell("3")>>,
       <<"apartment_area_sqm", FloatCell("92.0")>>,
       <<"parking_spaces", IntCell(1)>>,
       <<"construction_year", IntCell(2015)>>,
       <<"declared_price", IntCell(3200000)>>,
       <<"price_per_sqm_rounded", IntCell(34782)>>,
       <<"city", StrCell("תל אביב")>>,
       <<"data_quality_score", IntCell(90)>>,
       <<"is_valid", BoolCell(TRUE)>>,
       <<"imported_by", StrCell("מנהל נתונים")>>,
       <<"status", StrCell("active")>>,
       <<"created_at", StrCell("2024-01-15 15:01:00")>> >> >> ]

\* tables_data["Miscellaneous"], lines 194-216
T_Miscellaneous ==
  [ name |-> <<"M", "i", "s", "c", "e", "l", "l", "a", "n", "e", "o", "u", "s">>,
    hebrew_name |-> "נתונים נוספים",
    description |-> "נתוני הערכת שווי נוספים",
    data |-> <<
      <<
       <<"id", IntCell(1)>>,
       <<"today_date", StrCell("2024-01-15")>>,
       <<"appraisal_id", StrCell("AP-2024-001")>>,
       <<"opinion_types", StrCell("שומה מלאה, הערכת שווי")>>,
       <<"land_form", StrCell("מלבנית")>>,
       <<"land_surface", StrCell("שטוח")>>,
       <<"value_per_sqm", FloatCell("50000.00")>>,
       <<"ecological_area", FloatCell("120.50")>>,
       <<"property_value", FloatCell("6025000.00")>>,
       <<"property_value_in_words", StrCell("שישה מיליון עשרים וחמישה אלף שקלים")>>,
       <<"environment_description_prompt", StrCell("אזור מגורים שקט ויוקרתי ליד פארק עירוני")>>,
       <<"plot_description_prompt", StrCell("חלקה פינתית עם נגישות מעולה לתחבורה ציבורית")>>,
       <<"internal_property_description", StrCell("דירת 4 חדרים מחולקת היטב עם מרפסת גדולה")>>,
       <<"property_assessment_id", IntCell(1)>>,
       <<"created_by", StrCell("מעריך נכסים")>>,
       <<"status", StrCell("completed")>>,
       <<"created_at", StrCell("2024-01-15 16:00:00")>> >> >> ]

\* tables_data["Environment_Analyses"], lines 218-234
T_Environment_Analyses ==
  [ name |-> <<"E", "n", "v", "i", "r", "o", "n", "m", "e", "n", "t", "_", "A", "n", "a", "l", "y", "s", "e", "s">>,
    hebrew_name |-> "ניתוחי סביבה",
    description |-> "ניתוח מיקום וסביבה של נכסים",
    data |-> <<
      <<
       <<"id", StrCell("a1b2c3d4-e5f6-7890-abcd-ef1234567890")>>,
       <<"street", StrCell("רחוב הרצל")>>,
       <<"neighborhood", StrCell("שכונת הלב")>>,
       <<"city", StrCell("תל אביב")>>,
       <<"confidence_score", FloatCell("0.85")>>,
       <<"processing_time", IntCell(2500)>>,
       <<"tokens_used", IntCell(1200)>>,
       <<"cost", FloatCell("0.0045")>>,
       <<"analysis_method", StrCell("anthropic_claude_environment")>>,
       <<"model_used", StrCell("claude-3-5-sonnet-20241022")>>,
       <<"created_at", StrCell("2024-01-15 17:00:00")>> >> >> ]

\* the dict tables_data in insertion order (dict order is what .items() iterates)
tables_data ==
  << T_Land_Registry_Comprehensive,
     T_Building_Permits,
     T_Shared_Building_Orders,
     T_Property_Assessments,
     T_Images,
     T_Garmushka,
     T_Comparable_Data,
     T_Miscellaneous,
     T_Environment_Analyses >>

\* csv_files of create_csv_index: (filename, hebrew_name, english_desc) triples
csv_files ==
  <<
    [ filename |-> <<"1", "_", "l", "a", "n", "d", "_", "r", "e", "g", "i", "s", "t", "r", "y", "_", "c", "o", "m", "p", "r", "e", "h", "e", "n", "s", "i", "v", "e", ".", "c", "s", "v">>,
      hebrew_name |-> "נסח טאבו מקיף",
      english_desc |-> "Comprehensive land registry records" ],
    [ filename |-> <<"2", "_", "b", "u", "i", "l", "d", "i", "n", "g", "_", "p", "e", "r", "m", "i", "t", "s", ".", "c", "s", "v">>,
      hebrew_name |-> "היתרי בנייה",
      english_desc |-> "Building permits data" ],
    [ filename |-> <<"3", "_", "s", "h", "a", "r", "e", "d", "_", "b", "u", "i", "l", "d", "i", "n", "g", "_", "o", "r", "d", "e", "r", ".", "c", "s", "v">>,
      hebrew_name |-> "צווי בית משותף",
      english_desc |-> "Shared building orders" ],
    [ filename |-> <<"4", "_", "p", "r", "o", "p", "e", "r", "t", "y", "_", "a", "s", "s", "e", "s", "s", "m", "e", "n", "t", "s", ".", "c", "s", "v">>,
      hebrew_name |-> "שומות שווי נכסים",
      english_desc |-> "Property assessments" ],
    [ filename |-> <<"5", "_", "i", "m", "a", "g", "e", "s", ".", "c", "s", "v">>,
      hebrew_name |-> "תמונות נכסים",
      english_desc |-> "Property images and documents" ],
    [ filename |-> <<"6", "_", "g", "a", "r", "m", "u", "s", "h", "k", "a", ".", "c", "s", "v">>,
      hebrew_name |-> "גרמושקה",
      english_desc |-> "Measurement documents" ],
    [ filename |-> <<"7", "_", "c", "o", "m", "p", "a", "r", "a", "b", "l", "e", "_", "d", "a", "t", "a", ".", "c", "s", "v">>,
      hebrew_name |-> "נתוני השוואה",
      english_desc |-> "Comparable sales data" ],
    [ filename |-> <<"8", "_", "m", "i", "s", "c", "e", "l", "l", "a", "n", "e", "o", "u", "s", ".", "c", "s", "v">>,
      hebrew_name |-> "נתונים נוספים",
      english_desc |-> "Miscellaneous valuation data" ],
    [ filename |-> <<"9", "_", "e", "n", "v", "i", "r", "o", "n", "m", "e", "n", "t", "_", "a", "n", "a", "l", "y", "s", "e", "s", ".", "c", "s", "v">>,
      hebrew_name |-> "ניתוחי סביבה",
      english_desc |-> "Environment analysis data" ] >>

----------------------------------------------------------------------------
(* The template generator: pandas and openpyxl operations the script uses *)

\* a dict is a sequence of <<key, value>> pairs in insertion order
Keys(row) ==
  [k \in 1..Len(row) |-> row[k][1]]

HasKey(row, key) ==
  \E k \in 1..Len(row) : row[k][1] = key

Get(row, key) ==
  row[CHOOSE k \in 1..Len(row) : row[k][1] = key][2]

RECURSIVE AddNew(_, _)
\* cols followed by the keys of ks that cols lacks, in the order of ks
AddNew(cols, ks) ==
  IF ks = <<>> THEN cols
  ELSE AddNew(IF \E k \in 1..Len(cols) : cols[k] = Head(ks) THEN cols ELSE Append(cols, Head(ks)),
              Tail(ks))

RECURSIVE Columns(_)
\* columns of pd.DataFrame(list of dicts): every key of every row, first seen first
Columns(rows) ==
  IF rows = <<>> THEN <<>>
  ELSE AddNew(Columns(SubSeq(rows, 1, Len(rows) - 1)), Keys(rows[Len(rows)]))

\* pd.DataFrame(rows)
DataFrame(rows) ==
  LET cols == Columns(rows)
  IN  [ columns |-> cols,
        values |-> [r \in 1..Len(rows) |->
                      [c \in 1..Len(cols) |->
                         IF HasKey(rows[r], cols[c]) THEN Get(rows[r], cols[c]) ELSE NaNCell]] ]

\* the rows df.to_excel(writer, sheet_name=..., index=False) writes: the header, then the data
ToExcelRows(df) ==
  << [c \in 1..Len(df.columns) |-> StrCell(df.columns[c])] >> \o df.values

\* longest sheet name, line 262
SheetNameMax == 31

\* line 262
SheetName(table_name) ==
  IF Len(table_name) > SheetNameMax THEN Prefix(table_name, SheetNameMax) ELSE table_name

\* number of rows inserted above the table, line 272
TitleRows == 2

\* InsertRows inserting a single row whatever the amount
InsertOneRow(rows, amount) ==
  << <<>> >> \o rows

\* worksheet.insert_rows(1, amount): amount empty rows before row 1
InsertRows(rows, amount) ==
  [k \in 1..amount |-> <<>>] \o rows

\* worksheet['A<r>'] = value, with the font given to the cell
SetA(rows, r, value, font) ==
  [rows EXCEPT ![r] = IF @ = <<>> THEN << [StrCell(value) EXCEPT !.font = font] >>
                      ELSE [@ EXCEPT ![1] = [StrCell(value) EXCEPT !.font = font]]]

\* lines 272-279 on the rows of one worksheet
WithTitle(rows, table_info) ==
  SetA(SetA(InsertRows(rows, TitleRows),
            1, "טבלה: " \o table_info.hebrew_name, "bold 14"),
       2, "תיאור: " \o table_info.description, "italic")

\* SummaryRow counting the fields of the first sample row instead of the rows
SummaryRowCountsFields(table_info) ==
  << <<"Table Name (English)", StrCell(Str(table_info.name))>>,
     <<"שם הטבלה (עברית)", StrCell(table_info.hebrew_name)>>,
     <<"תיאור", StrCell(table_info.description)>>,
     <<"מספר רשומות לדוגמה", IntCell(Len(table_info.data[1]))>> >>

\* the dict appended to summary_data, lines 247-252
SummaryRow(table_info) ==
  << <<"Table Name (English)", StrCell(Str(table_info.name))>>,
     <<"שם הטבלה (עברית)", StrCell(table_info.hebrew_name)>>,
     <<"תיאור", StrCell(table_info.description)>>,
     <<"מספר רשומות לדוגמה", IntCell(Len(table_info.data))>> >>

\* one worksheet of the workbook
Sheet(sheet_name, rows) ==
  [name |-> sheet_name, rows |-> rows]

\* writer.sheets[sheet_name] replaced by rows
SetSheet(b, sheet_name, rows) ==
  [k \in 1..Len(b) |-> IF b[k].name = sheet_name THEN Sheet(sheet_name, rows) ELSE b[k]]

\* a spreadsheet or text file on disk, and no file
NoArtifact == [exists |-> FALSE, content |-> <<>>]

Artifact(c) == [exists |-> TRUE, content |-> c]

\* one line of the list, line 302
IndexLine(e) ==
  << "- **", e.filename, "** - ", e.hebrew_name, " (", e.english_desc, ")\n" >>

\* index_content, lines 285-310 (the backquotes around the workbook's file name
\* are left out: a TLA+ string cannot hold one)
index_content ==
  [ title |-> "# Shamay Database CSV Files\n\n",
    intro |-> "This directory contains CSV templates for all database tables in the Shamay system.\n\n",
    files |-> [k \in 1..Len(csv_files) |-> IndexLine(csv_files[k])],
    usage |-> << "1. Each CSV file contains sample data with proper column headers\n",
                 "2. Use these templates to understand the database structure\n",
                 "3. Import data following the same format and column names\n",
                 "4. Hebrew text is fully supported in all fields\n\n" >>,
    excel |-> "A complete Excel workbook with all tables is available as Shamay_Database_Tables.xlsx\n" ]

----------------------------------------------------------------------------
(* The template generator: create_excel_workbook, create_csv_index, __main__ *)

\* the summary sheet, lines 254-255
SummarySheet(rows) ==
  Sheet("Summary - סיכום", ToExcelRows(DataFrame(rows)))

\* the sheet df.to_excel leaves for one table, lines 259-265
TableSheet(table_info) ==
  Sheet(Str(SheetName(table_info.name)), ToExcelRows(DataFrame(table_info.data)))

\* the workbook a complete run of create_excel_workbook saves
FullBook ==
  << SummarySheet([k \in 1..Len(tables_data) |-> SummaryRow(tables_data[k])]) >>
  \o [k \in 1..Len(tables_data) |->
        Sheet(TableSheet(tables_data[k]).name,
              WithTitle(TableSheet(tables_data[k]).rows, tables_data[k]))]

\* OnException with the exception swallowed: the script goes on to the index
OnExceptionContinue == "csv_index"

\* where an exception raised by create_excel_workbook or create_csv_index
\* goes: the handler of line 322
OnException == "except"

\* the exit status of a script that runs off its end, the handler included
EndOfScript == 0

\* line 7: import pandas, outside the try block
ImportPandas ==
  /\ prog = "generator" /\ pc = "import_pandas"
  /\ \E installed \in BOOLEAN :
       IF installed
       THEN /\ pc' = "open_writer"
            /\ UNCHANGED << exit_status, failure, raisedIn >>
       ELSE /\ Exit(1)
            /\ failure' = "crash"
            /\ raisedIn' = raisedIn \cup {"import_pandas"}
  /\ UNCHANGED << prog, convVars, genVars, stdout >>

\* line 243: pd.ExcelWriter(output_file, engine='openpyxl') opens the file for
\* writing (creating or emptying it) with an empty workbook in memory
OpenWriter ==
  /\ prog = "generator" /\ pc = "open_writer"
  /\ \E ok \in BOOLEAN :
       IF ok
       THEN /\ xlsx' = Artifact(<<>>)
            /\ book' = <<>>
            /\ summary_data' = <<>>
            /\ i' = 1
            /\ pc' = "summary_loop"
            /\ UNCHANGED raisedIn
       ELSE /\ pc' = OnException
            /\ raisedIn' = raisedIn \cup {"workbook"}
            /\ UNCHANGED << xlsx, book, summary_data, i >>
  /\ UNCHANGED << prog, convVars, artifacts0, readme, wrote, stdout, exit_status, failure >>

\* lines 246-252, one iteration; line 245 and the loop's end
SummaryAppend ==
  /\ prog = "generator" /\ pc = "summary_loop"
  /\ IF i <= Len(tables_data)
     THEN /\ summary_data' = Append(summary_data, SummaryRow(tables_data[i]))
          /\ i' = i + 1
          /\ UNCHANGED pc
     ELSE /\ pc' = "summary_to_excel"
          /\ UNCHANGED << summary_data, i >>
  /\ UNCHANGED << prog, convVars, artifacts0, book, xlsx, readme, wrote, stdout, exit_status,
                  failure, raisedIn >>

\* lines 254-255
SummaryToExcel ==
  /\ prog = "generator" /\ pc = "summary_to_excel"
  /\ \E ok \in BOOLEAN :
       IF ok
       THEN /\ book' = Append(book, SummarySheet(summary_data))
            /\ i' = 1
            /\ pc' = "tables_loop"
            /\ UNCHANGED raisedIn
       ELSE /\ pc' = "writer_exit_raised"
            /\ raisedIn' = raisedIn \cup {"workbook"}
            /\ UNCHANGED << book, i >>
  /\ UNCHANGED << prog, convVars, artifacts0, summary_data, xlsx, readme, wrote, stdout,
                  exit_status, failure >>

\* lines 258-265, one iteration up to to_excel; the loop's end
TableToExcel ==
  /\ prog = "generator" /\ pc = "tables_loop"
  /\ IF i <= Len(tables_data)
     THEN \E ok \in BOOLEAN :
            IF ok
            THEN /\ book' = Append(book, TableSheet(tables_data[i]))
                 /\ pc' = "format_sheet"
                 /\ UNCHANGED raisedIn
            ELSE /\ pc' = "writer_exit_raised"
                 /\ raisedIn' = raisedIn \cup {"workbook"}
                 /\ UNCHANGED book
     ELSE /\ pc' = "writer_exit"
          /\ UNCHANGED << book, raisedIn >>
  /\ UNCHANGED << prog, convVars, artifacts0, i, summary_data, xlsx, readme, wrote, stdout,
                  exit_status, failure >>

\* lines 267-279, the rest of the iteration
FormatSheet ==
  /\ prog = "generator" /\ pc = "format_sheet"
  /\ LET sheet_name == Str(SheetName(tables_data[i].name))
         worksheet == book[CHOOSE k \in 1..Len(book) : book[k].name = sheet_name]
     IN  book' = SetSheet(book, sheet_name, WithTitle(worksheet.rows, tables_data[i]))
  /\ i' = i + 1
  /\ pc' = "tables_loop"
  /\ UNCHANGED << prog, convVars, artifacts0, summary_data, xlsx, readme, wrote, stdout,
                  exit_status, failure, raisedIn >>

\* the end of the with block of line 243: the writer closes and saves the book
WriterExit ==
  /\ prog = "generator" /\ pc = "writer_exit"
  /\ \E ok \in BOOLEAN :
       IF ok
       THEN /\ xlsx' = Artifact(book)
            /\ wrote' = wrote \cup {"xlsx"}
            /\ pc' = "print_workbook"
            /\ UNCHANGED raisedIn
       ELSE /\ pc' = OnException
            /\ raisedIn' = raisedIn \cup {"workbook"}
            /\ UNCHANGED << xlsx, wrote >>
  /\ UNCHANGED << prog, convVars, artifacts0, i, summary_data, book, readme, stdout,
                  exit_status, failure >>

\* the with block of line 243 left by an exception: the writer still closes,
\* which saves the sheets made so far or fails, and the exception goes on
WriterExitRaised ==
  /\ prog = "generator" /\ pc = "writer_exit_raised"
  /\ \E ok \in BOOLEAN :
       xlsx' = IF ok THEN Artifact(book) ELSE xlsx
  /\ pc' = OnException
  /\ UNCHANGED << prog, convVars, artifacts0, i, summary_data, book, readme, wrote, stdout,
                  exit_status, failure, raisedIn >>

\* line 281
PrintWorkbook ==
  /\ prog = "generator" /\ pc = "print_workbook"
  /\ \E ok \in BOOLEAN :
       IF ok
       THEN /\ stdout' = Printed(TRUE, "Excel file created successfully", <<>>)
            /\ pc' = "csv_index"
            /\ UNCHANGED raisedIn
       ELSE /\ pc' = OnException
            /\ raisedIn' = raisedIn \cup {"workbook"}
            /\ UNCHANGED stdout
  /\ UNCHANGED << prog, convVars, genVars, exit_status, failure >>

\* lines 285-313: the content is built, README.md is opened (emptied) and written
WriteIndex ==
  /\ prog = "generator" /\ pc = "csv_index"
  /\ \E outcome \in {"written", "open raised", "write raised"} :
       CASE outcome = "written" ->
              /\ readme' = Artifact(<<index_content>>)
              /\ wrote' = wrote \cup {"readme"}
              /\ pc' = "print_index"
              /\ UNCHANGED raisedIn
         [] outcome = "open raised" ->
              /\ pc' = OnException
              /\ raisedIn' = raisedIn \cup {"index"}
              /\ UNCHANGED << readme, wrote >>
         [] outcome = "write raised" ->
              /\ readme' = Artifact(<<>>)
              /\ pc' = OnException
              /\ raisedIn' = raisedIn \cup {"index"}
              /\ UNCHANGED wrote
  /\ UNCHANGED << prog, convVars, artifacts0, i, summary_data, book, xlsx, stdout, exit_status,
                  failure >>

\* line 315
PrintIndex ==
  /\ prog = "generator" /\ pc = "print_index"
  /\ \E ok \in BOOLEAN :
       IF ok
       THEN /\ stdout' = Printed(TRUE, "CSV index file created: README.md", <<>>)
            /\ pc' = "print_all"
            /\ UNCHANGED raisedIn
       ELSE /\ pc' = OnException
            /\ raisedIn' = raisedIn \cup {"index"}
            /\ UNCHANGED stdout
  /\ UNCHANGED << prog, convVars, genVars, exit_status, failure >>

\* line 321 and the end of the script
PrintAll ==
  /\ prog = "generator" /\ pc = "print_all"
  /\ \E ok \in BOOLEAN :
       IF ok
       THEN /\ stdout' = Printed(TRUE, "All database templates created successfully!", <<>>)
            /\ Exit(EndOfScript)
            /\ UNCHANGED raisedIn
       ELSE /\ pc' = OnException
            /\ raisedIn' = raisedIn \cup {"print_all"}
            /\ UNCHANGED << stdout, exit_status >>
  /\ UNCHANGED << prog, convVars, genVars, failure >>

\* lines 322-324 and the end of the script; a print that raises inside the
\* handler ends the process with a traceback and status 1
Except ==
  /\ prog = "generator" /\ pc = "except"
  /\ failure' = "exception"
  /\ \E ok \in BOOLEAN :
       IF ok
       THEN /\ stdout' = stdout \o << <<"Error creating templates", <<>> >>,
                                      <<"Make sure pandas and openpyxl are installed", <<>> >> >>
            /\ Exit(EndOfScript)
            /\ UNCHANGED raisedIn
       ELSE /\ Exit(1)
            /\ raisedIn' = raisedIn \cup {"print_handler"}
            /\ UNCHANGED stdout
  /\ UNCHANGED << prog, convVars, genVars >>

NextGenerator ==
  \/ ImportPandas
  \/ OpenWriter
  \/ SummaryAppend
  \/ SummaryToExcel
  \/ TableToExcel
  \/ FormatSheet
  \/ WriterExit
  \/ WriterExitRaised
  \/ PrintWorkbook
  \/ WriteIndex
  \/ PrintIndex
  \/ PrintAll
  \/ Except

----------------------------------------------------------------------------
(* One process invocation *)

InitConverter ==
  /\ prog = "converter"
  /\ pc = "main"
  /\ sys_argv \in ArgLists
  /\ dirs \in DirLayouts
  /\ \E src \in {NoFile, File(PdfBytes)}, dst \in {NoFile, File(OldBytes)} :
       files = [p \in AllPaths |->
                  IF Len(sys_argv) >= 2 /\ p = sys_argv[2] THEN src
                  ELSE IF Len(sys_argv) >= 3 /\ p = sys_argv[3]
                          /\ (Dirname(p) = <<>> \/ Dirname(p) \in dirs)
                       THEN dst
                       ELSE NoFile]
  /\ i = 0 /\ summary_data = <<>> /\ book = <<>>
  /\ xlsx = NoArtifact /\ readme = NoArtifact

InitGenerator ==
  /\ prog = "generator"
  /\ pc = "import_pandas"
  /\ sys_argv = <<ScriptName>>
  /\ dirs = {} /\ files = [p \in AllPaths |-> NoFile]
  /\ i = 0 /\ summary_data = <<>> /\ book = <<>>
  /\ xlsx \in {NoArtifact, Artifact(FullBook)}
  /\ readme \in {NoArtifact, Artifact(<<index_content>>)}

Init ==
  /\ InitConverter \/ InitGenerator
  /\ files0 = files
  /\ dirs0 = dirs
  /\ result = Unset
  /\ invoked = <<>>
  /\ stdout = <<>>
  /\ exit_status = -1
  /\ failure = "none"
  /\ raisedIn = {}
  /\ wrote = {}
  /\ artifacts0 = <<xlsx, readme>>

Next ==
  \/ NextConverter
  \/ NextGenerator

Spec == Init /\ [][Next]_vars

----------------------------------------------------------------------------
(* Vocabulary of the properties *)

Exited == pc = "exit"

\* the run was given a source and a destination
TwoArguments == Len(sys_argv) = 3

\* the path existed, as a file or a directory, when the process started
ExistedAtStart(p) ==
  \/ p \in dirs0
  \/ p \in DOMAIN files0 /\ files0[p].exists

\* the path ends in ".pdf" in any mix of upper and lower case
EndsInPdfExtension(p) ==
  /\ Len(p) >= 4
  /\ p[Len(p) - 3] = "."
  /\ p[Len(p) - 2] \in {"p", "P"}
  /\ p[Len(p) - 1] \in {"d", "D"}
  /\ p[Len(p)] \in {"f", "F"}

\* the failure conditions the converter reports
ConverterFailures == {"missing", "type", "dependency", "empty", "exception"}

\* a line with this tag reached stdout
Said(tag) ==
  \E k \in 1..Len(stdout) : stdout[k][1] = tag

----------------------------------------------------------------------------
(* The converter *)

\* C1 (as stated): a converter run that ends in one of its failure conditions
\* has status non-zero and leaves the destination file as it was before the
\* run: not created, and not modified if it existed.
C1_FailedRunLeavesDestinationUntouched ==
  (prog = "converter" /\ Exited /\ failure \in ConverterFailures)
    => /\ exit_status # 0
       /\ files[sys_argv[3]] = files0[sys_argv[3]]

\* C2: a converter run that exits with status 0 has called the conversion
\* service once, on the source path, got non-empty text from it, and the
\* destination file holds exactly the UTF-8 bytes of that text; and a run on an
\* existing .pdf source in which the service returned non-empty text and neither
\* the opening, the writing nor a later print raised exits with status 0.
C2_StatusZeroIffConvertedAndWritten ==
  (prog = "converter" /\ Exited)
    => /\ exit_status = 0
            => /\ invoked = << sys_argv[2] >>
               /\ result.kind = "object" /\ result.has_text
               /\ result.text_content # <<>>
               /\ files[sys_argv[3]] = File(Encode(result.text_content))
       /\ ( /\ TwoArguments
            /\ ExistedAtStart(sys_argv[2])
            /\ EndsInPdfExtension(sys_argv[2])
            /\ result.kind = "object" /\ result.has_text
            /\ result.text_content # <<>>
            /\ raisedIn \cap {"open", "write", "print_success", "print_final"} = {} )
            => exit_status = 0

\* C2 happens: a run exits 0 over a destination an earlier run left, with a
\* text of two characters, one of them of two bytes
C2_Witness ==
  /\ prog = "converter" /\ Exited /\ exit_status = 0
  /\ files0[sys_argv[3]] = File(OldBytes)
  /\ result.text_content = <<"e'", "a">>
  /\ files[sys_argv[3]].bytes = <<195, 169, 97>>

\* C4: a converter run with two arguments whose source path does not exist
\* never calls the conversion service, never changes a file or a directory
\* (the destination and its parent directory are not created), never gets past
\* the existence check, and exits with a non-zero status.
C4_MissingSourceExitsBeforeAnyEffect ==
  (prog = "converter" /\ TwoArguments /\ ~ExistedAtStart(sys_argv[2]))
    => /\ invoked = <<>>
       /\ files = files0
       /\ dirs = dirs0
       /\ pc \in {"main", "check_exists", "exit"}
       /\ Exited => exit_status # 0

\* C4 happens: the run of a missing .pdf source towards a destination whose
\* parent directory is absent has exited
C4_Witness ==
  /\ prog = "converter" /\ TwoArguments /\ Exited
  /\ ~ExistedAtStart(sys_argv[2])
  /\ EndsInPdfExtension(sys_argv[2])
  /\ Dirname(sys_argv[3]) # <<>> /\ Dirname(sys_argv[3]) \notin dirs
  /\ failure = "missing"
  /\ exit_status = 1

\* C5: a converter run whose source path does not end in .pdf (in any case)
\* never calls the conversion service and never gets past the extension check,
\* and exits with a non-zero status, whether the source exists or not.
C5_NonPdfExitsBeforeConversion ==
  (prog = "converter" /\ Len(sys_argv) >= 2 /\ ~EndsInPdfExtension(sys_argv[2]))
    => /\ invoked = <<>>
       /\ pc \in {"main", "check_exists", "check_ext", "exit"}
       /\ Exited => exit_status # 0

\* C5 happens: the run of an existing source that is no .pdf has exited at the
\* extension check
C5_Witness ==
  /\ prog = "converter" /\ TwoArguments /\ Exited
  /\ ExistedAtStart(sys_argv[2])
  /\ ~EndsInPdfExtension(sys_argv[2])
  /\ failure = "type"
  /\ exit_status = 1

\* C6 (as stated): a converter run that ends in one of its failure conditions
\* leaves the file system as it was before the run: no file and no directory
\* (the destination's parent directory in particular) created or changed.
C6_FailedRunLeavesFileSystemUntouched ==
  (prog = "converter" /\ Exited /\ failure \in ConverterFailures)
    => /\ dirs = dirs0
       /\ files = files0

----------------------------------------------------------------------------
(* The template generator *)

\* C3 (as stated): a generator run in which building the workbook or the index
\* document raised reports an error message and exits with a non-zero status.
C3_RaisedRunReportsAndExitsNonZero ==
  (prog = "generator" /\ Exited /\ raisedIn \cap {"workbook", "index"} # {})
    => /\ Said("Error creating templates")
       /\ exit_status # 0

\* the rows of the Summary sheet, once to_excel has made it
SummaryRows == book[1].rows

\* C7: the Summary sheet, as soon as it is in the workbook and in the file once
\* saved, has a header row and exactly one row per schema of tables_data, in
\* the order of tables_data, each with the schema's name and the number of its
\* sample rows.
C7_SummaryOneRowPerSchema ==
  (prog = "generator" /\ Len(book) >= 1)
    => /\ book[1].name = "Summary - סיכום"
       /\ Len(SummaryRows) = 1 + Len(tables_data)
       /\ \A k \in 1..Len(tables_data) :
            /\ SummaryRows[k + 1][1].s = Str(tables_data[k].name)
            /\ SummaryRows[k + 1][2].s = tables_data[k].hebrew_name
            /\ SummaryRows[k + 1][3].s = tables_data[k].description
            /\ SummaryRows[k + 1][4] = IntCell(Len(tables_data[k].data))
       /\ SummaryRows[6][4].n = 2
       /\ "xlsx" \in wrote => xlsx.content[1] = book[1]

\* C7 happens: the workbook has been saved with its Summary sheet of nine rows
C7_Witness ==
  /\ prog = "generator" /\ Exited
  /\ "xlsx" \in wrote
  /\ Len(xlsx.content[1].rows) = 10
  /\ xlsx.content[1].rows[8][1].s = "Comparable_Data"
  /\ xlsx.content[1].rows[8][4].n = 2

\* the sheet renders the schema: the two title rows, the header row with
\* every field of every sample row, then one data row per sample row, each
\* holding under every header the sample row's value for that field
RendersSchema(sheet, table_info) ==
  /\ sheet.name = Str(table_info.name)
  /\ Len(sheet.rows) = 3 + Len(table_info.data)
  /\ Len(sheet.rows[1]) = 1
  /\ sheet.rows[1][1].s = "טבלה: " \o table_info.hebrew_name
  /\ Len(sheet.rows[2]) = 1
  /\ sheet.rows[2][1].s = "תיאור: " \o table_info.description
  /\ \A r \in 1..Len(table_info.data) :
       /\ \A f \in 1..Len(table_info.data[r]) :
            \E c \in 1..Len(sheet.rows[3]) : sheet.rows[3][c] = StrCell(table_info.data[r][f][1])
       /\ Len(sheet.rows[3 + r]) = Len(sheet.rows[3])
       /\ \A c \in 1..Len(sheet.rows[3]) :
            HasKey(table_info.data[r], sheet.rows[3][c].s)
              => sheet.rows[3 + r][c] = Get(table_info.data[r], sheet.rows[3][c].s)

\* C8: every schema's sheet, once its iteration of the loop is over and in the
\* file once saved, is the two title rows, the header row with every field of
\* every sample row, and one data row per sample row; the Images sheet has two
\* data rows under the title rows and the header.
C8_SheetPerSchema ==
  /\ (prog = "generator" /\ pc \in {"tables_loop", "format_sheet"})
       => \A k \in 1..(i - 1) : RendersSchema(book[k + 1], tables_data[k])
  /\ (prog = "generator" /\ "xlsx" \in wrote)
       => /\ Len(xlsx.content) = 1 + Len(tables_data)
          /\ \A k \in 1..Len(tables_data) : RendersSchema(xlsx.content[k + 1], tables_data[k])
          /\ xlsx.content[6].name = "Images"
          /\ Len(xlsx.content[6].rows) = 5

\* C8 happens: the workbook has been saved; its Images sheet has the two title
\* rows, twelve headers and the two images
C8_Witness ==
  /\ prog = "generator" /\ "xlsx" \in wrote
  /\ xlsx.content[6].name = "Images"
  /\ Len(xlsx.content[6].rows[3]) = 12
  /\ xlsx.content[6].rows[5][4].s = "govmap_screenshot.png"

\* C9: in a generator run the index document is written only once the whole
\* workbook is in its file; the final success message is printed only when
\* both have been written in full; a run in which any step raised never prints
\* it; and when the workbook step raised, the index document is left as it was.
C9_IndexAfterWorkbookAndNoFalseSuccess ==
  prog = "generator"
    => /\ (pc = "csv_index" \/ "readme" \in wrote \/ readme # artifacts0[2])
            => "xlsx" \in wrote /\ xlsx = Artifact(FullBook)
       /\ Said("All database templates created successfully!")
            => /\ wrote = {"xlsx", "readme"}
               /\ xlsx = Artifact(FullBook)
               /\ readme = Artifact(<<index_content>>)
               /\ raisedIn = {}
       /\ raisedIn # {} => ~Said("All database templates created successfully!")
       /\ "workbook" \in raisedIn => "readme" \notin wrote /\ readme = artifacts0[2]

\* C9 happens: a run has written the workbook, then the index document, and
\* printed the final message
C9_Witness ==
  /\ prog = "generator" /\ Exited
  /\ Said("All database templates created successfully!")
  /\ wrote = {"xlsx", "readme"}

\* position k as the digit the file names start with
Digit(k) ==
  << "1", "2", "3", "4", "5", "6", "7", "8", "9" >>[k]

\* C10 (as stated): the list of the index document written by create_csv_index
\* has one entry per schema of tables_data, in the order of tables_data; the
\* k-th entry carries the k-th schema's hebrew_name and the file name
\* "<k>_<schema name in lower case>.csv".
C10_IndexListInSyncWithCatalogue ==
  (prog = "generator" /\ "readme" \in wrote)
    => /\ Len(readme.content[1].files) = Len(tables_data)
       /\ \A k \in 1..Len(tables_data) :
            /\ readme.content[1].files[k][4] = tables_data[k].hebrew_name
            /\ readme.content[1].files[k][2]
                 = << Digit(k), "_" >> \o Lower(tables_data[k].name) \o << ".", "c", "s", "v" >>

====
